---- MODULE Spec2Model ----
\* Flight-Management-API: the Aircraft and Flight registries (src/app/models.py)
\* and the request handlers that read and write them (src/app/routes.py).
\* One action per handler; a handler runs to completion (one request at a time).
EXTENDS Integers, Sequences, FiniteSets, TLC

\* ---------------------------------------------------------------- bounds
MaxAircraft == 2        \* aircraft ids are 1..MaxAircraft
MaxFlights == 1         \* flight ids are 1..MaxFlights
MaxTime == 2            \* instants are 0..MaxTime
MaxWorkers == 2         \* requests that can be in progress at once

\* Python None / SQL NULL for an integer-valued slot (aircraft_id, a parsed datetime)
Null == 0 - 1

\* ---------------------------------------------------------------- strings
\* A string is a sequence of characters. ICAO inputs mix cases and a digit.
UpperLetters == {"A", "B", "C", "D", "E", "G", "L", "K", "J", "F"}
LowerLetters == {"e", "g", "l"}

\* str.isalpha for one character
IsAlphaChar(ch) == ch \in UpperLetters \cup LowerLetters

\* str.upper for one character
UpperChar(ch) ==
    CASE ch = "e" -> "E"
      [] ch = "g" -> "G"
      [] ch = "l" -> "L"
      [] OTHER -> ch

\* str.upper
Upper(code) == [i \in 1..Len(code) |-> UpperChar(code[i])]

\* app.utils.validate_icao_code: non-empty, 4 characters, all alphabetic
validate_icao_code(code) ==
    /\ Len(code) # 0
    /\ Len(code) = 4
    /\ \A i \in 1..Len(code) : IsAlphaChar(code[i])

\* An ISO-8601 string naming instant t, and a string that is no ISO-8601 datetime
IsoString(t) == <<"iso", t>>
Garbage == <<"garbage">>

\* app.utils.parse_datetime: datetime.fromisoformat, None on ValueError/TypeError
parse_datetime(dt_str) ==
    IF Len(dt_str) = 2 /\ dt_str[1] = "iso" THEN dt_str[2] ELSE Null

\* ---------------------------------------------------------------- inputs
SerialInputs == {"SN1", "SN2", "SN3"}
ManufacturerInputs == {"Airbus", "Boeing"}
DepIcaoInputs == {<<"e", "g", "l", "l">>, <<"K", "1", "F", "K">>}
ArrIcaoInputs == {<<"K", "J", "F", "K">>, <<"E", "G", "L">>}
DtInputs == {IsoString(t) : t \in 0..MaxTime} \cup {Garbage}
AircraftIdInputs == 0..MaxAircraft
FlightIdInputs == 0..MaxFlights

\* Request bodies: the set of keys present in the JSON object, and their values
\* (a key that is absent carries a fixed placeholder value nobody reads).
NoString == <<>>
AircraftBodies ==
    { [keys |-> k,
       serial_number |-> IF "serial_number" \in k THEN sn ELSE "",
       manufacturer |-> IF "manufacturer" \in k THEN m ELSE ""] :
        k \in SUBSET {"serial_number", "manufacturer"},
        sn \in SerialInputs, m \in ManufacturerInputs }
FlightKeys == {"departure_airport", "arrival_airport", "departure_time",
               "arrival_time", "aircraft_id"}
FlightBodies ==
    { [keys |-> k,
       departure_airport |-> IF "departure_airport" \in k THEN da ELSE NoString,
       arrival_airport |-> IF "arrival_airport" \in k THEN aa ELSE NoString,
       departure_time |-> IF "departure_time" \in k THEN dt ELSE NoString,
       arrival_time |-> IF "arrival_time" \in k THEN at ELSE NoString,
       aircraft_id |-> IF "aircraft_id" \in k THEN aid ELSE Null] :
        k \in SUBSET FlightKeys,
        da \in DepIcaoInputs, aa \in ArrIcaoInputs,
        dt \in DtInputs, at \in DtInputs,
        aid \in AircraftIdInputs \cup {Null} }
NoBody == [keys |-> {}]

\* ---------------------------------------------------------------- state
VARIABLES
    aircraft,   \* the Aircraft table: id -> [serial_number, manufacturer]
    flights,    \* the Flight table: id -> [departure_airport, ..., aircraft_id]
    now,        \* datetime.utcnow()
    req,        \* the request whose response is being delivered, or Idle
    resp,       \* its response: HTTP status and which error message
    pre,        \* the tables as that request found them
    threads     \* requests handled concurrently: worker -> how far its handler is
vars == <<aircraft, flights, now, req, resp, pre, threads>>

\* models.py: Aircraft and Flight rows
AircraftRow(sn, m) == [serial_number |-> sn, manufacturer |-> m]
FlightRow(da, aa, dt, at, aid) ==
    [departure_airport |-> da, arrival_airport |-> aa,
     departure_time |-> dt, arrival_time |-> at, aircraft_id |-> aid]

Max(S) == CHOOSE x \in S : \A y \in S : y <= x

\* Integer primary key assigned on insert: one more than the largest id in use
NextId(table) == IF DOMAIN table = {} THEN 1 ELSE Max(DOMAIN table) + 1

\* db.session.add + commit of a new row; db.session.delete + commit
Insert(table, row) ==
    [i \in DOMAIN table \cup {NextId(table)} |->
        IF i = NextId(table) THEN row ELSE table[i]]
Delete(table, id) == [i \in DOMAIN table \ {id} |-> table[i]]

Request(op, aircraft_id, flight_id, data) ==
    [op |-> op, aircraft_id |-> aircraft_id, flight_id |-> flight_id, data |-> data]
Response(status, error) == [status |-> status, error |-> error]
Ok(status) == Response(status, "none")

\* The outcome of a handler: its response and the tables as committed
Outcome(r, ac, fl) == [resp |-> r, aircraft |-> ac, flights |-> fl]

\* No request is in progress
Idle == Request("idle", 0, 0, NoBody)
NoTables == [aircraft |-> << >>, flights |-> << >>]

\* A worker of the server with no request in hand
Workers == 1..MaxWorkers
NoThread == [pc |-> "idle"]

Init ==
    /\ threads = [w \in Workers |-> NoThread]
    /\ aircraft = << >>
    /\ flights = << >>
    /\ now = 0
    /\ req = Idle
    /\ resp = Ok(0)
    /\ pre = NoTables

\* Requests are handled one at a time, each to completion: the tables and the
\* response become the handler's outcome, and the clock (read once by a handler)
\* does not move meanwhile.
Handle(r, out) ==
    /\ req' = r
    /\ resp' = out.resp
    /\ pre' = [aircraft |-> aircraft, flights |-> flights]
    /\ aircraft' = out.aircraft
    /\ flights' = out.flights
    /\ UNCHANGED <<now, threads>>

\* The response has been delivered; the next request can be taken.
Respond ==
    /\ req # Idle
    /\ req' = Idle
    /\ resp' = Ok(0)
    /\ pre' = NoTables
    /\ UNCHANGED <<aircraft, flights, now, threads>>

\* ---------------------------------------------------------------- aircraft
\* Aircraft.query.get_or_404 / Flight.query.get_or_404
Exists(table, id) == id \in DOMAIN table

\* Aircraft.query.filter_by(serial_number=sn).first() is not None
SerialHolders(ac, sn) == {i \in DOMAIN ac : ac[i].serial_number = sn}

get_aircraft_by_id_result(ac, fl, aircraft_id) ==
    IF ~Exists(ac, aircraft_id) THEN Outcome(Response(404, "not_found"), ac, fl)
    ELSE Outcome(Ok(200), ac, fl)

\* Faulty variant: create_aircraft without the lookup of the serial number
create_aircraft_result_unchecked(ac, fl, data) ==
    IF "serial_number" \notin data.keys \/ "manufacturer" \notin data.keys
    THEN Outcome(Response(400, "missing_fields"), ac, fl)
    ELSE Outcome(Ok(201),
                 Insert(ac, AircraftRow(data.serial_number, data.manufacturer)), fl)

create_aircraft_result(ac, fl, data) ==
    IF "serial_number" \notin data.keys \/ "manufacturer" \notin data.keys
    THEN Outcome(Response(400, "missing_fields"), ac, fl)
    ELSE IF SerialHolders(ac, data.serial_number) # {}
    THEN Outcome(Response(409, "conflict"), ac, fl)
    ELSE Outcome(Ok(201),
                 Insert(ac, AircraftRow(data.serial_number, data.manufacturer)), fl)

\* Faulty variant: update_aircraft that assigns fields without the conflict check
update_aircraft_result_unchecked(ac, fl, aircraft_id, data) ==
    IF ~Exists(ac, aircraft_id) THEN Outcome(Response(404, "not_found"), ac, fl)
    ELSE LET a0 == ac[aircraft_id]
             a1 == IF "serial_number" \in data.keys
                   THEN [a0 EXCEPT !.serial_number = data.serial_number] ELSE a0
             a2 == IF "manufacturer" \in data.keys
                   THEN [a1 EXCEPT !.manufacturer = data.manufacturer] ELSE a1
         IN  Outcome(Ok(200), [ac EXCEPT ![aircraft_id] = a2], fl)

\* Faulty variant: update_aircraft whose conflict check forgets `existing.id != aircraft_id`
update_aircraft_result_any_holder(ac, fl, aircraft_id, data) ==
    IF ~Exists(ac, aircraft_id) THEN Outcome(Response(404, "not_found"), ac, fl)
    ELSE IF /\ "serial_number" \in data.keys
            /\ SerialHolders(ac, data.serial_number) # {}
    THEN Outcome(Response(409, "conflict"), ac, fl)
    ELSE LET a0 == ac[aircraft_id]
             a1 == IF "serial_number" \in data.keys
                   THEN [a0 EXCEPT !.serial_number = data.serial_number] ELSE a0
             a2 == IF "manufacturer" \in data.keys
                   THEN [a1 EXCEPT !.manufacturer = data.manufacturer] ELSE a1
         IN  Outcome(Ok(200), [ac EXCEPT ![aircraft_id] = a2], fl)

update_aircraft_result(ac, fl, aircraft_id, data) ==
    IF ~Exists(ac, aircraft_id) THEN Outcome(Response(404, "not_found"), ac, fl)
    ELSE IF /\ "serial_number" \in data.keys
            /\ \E i \in SerialHolders(ac, data.serial_number) : i # aircraft_id
    THEN Outcome(Response(409, "conflict"), ac, fl)
    ELSE LET a0 == ac[aircraft_id]
             a1 == IF "serial_number" \in data.keys
                   THEN [a0 EXCEPT !.serial_number = data.serial_number] ELSE a0
             a2 == IF "manufacturer" \in data.keys
                   THEN [a1 EXCEPT !.manufacturer = data.manufacturer] ELSE a1
         IN  Outcome(Ok(200), [ac EXCEPT ![aircraft_id] = a2], fl)

\* Flight.query.filter_by(aircraft_id=aircraft_id).first() is not None
FlightsOf(fl, aircraft_id) == {i \in DOMAIN fl : fl[i].aircraft_id = aircraft_id}

\* Faulty variant: delete_aircraft without the check for assigned flights
delete_aircraft_result_unguarded(ac, fl, aircraft_id) ==
    IF ~Exists(ac, aircraft_id) THEN Outcome(Response(404, "not_found"), ac, fl)
    ELSE Outcome(Ok(200), Delete(ac, aircraft_id), fl)

delete_aircraft_result(ac, fl, aircraft_id) ==
    IF ~Exists(ac, aircraft_id) THEN Outcome(Response(404, "not_found"), ac, fl)
    ELSE IF FlightsOf(fl, aircraft_id) # {}
    THEN Outcome(Response(400, "assigned_to_flights"), ac, fl)
    ELSE Outcome(Ok(200), Delete(ac, aircraft_id), fl)

get_aircraft_by_id ==
    /\ req = Idle
    /\ \E id \in AircraftIdInputs :
           Handle(Request("get_aircraft_by_id", id, 0, NoBody),
                  get_aircraft_by_id_result(aircraft, flights, id))

create_aircraft ==
    /\ req = Idle
    /\ \E data \in AircraftBodies :
           LET out == create_aircraft_result(aircraft, flights, data) IN
           /\ DOMAIN out.aircraft \subseteq 1..MaxAircraft
           /\ Handle(Request("create_aircraft", 0, 0, data), out)

update_aircraft ==
    /\ req = Idle
    /\ \E id \in AircraftIdInputs, data \in AircraftBodies :
           Handle(Request("update_aircraft", id, 0, data),
                  update_aircraft_result(aircraft, flights, id, data))

delete_aircraft ==
    /\ req = Idle
    /\ \E id \in AircraftIdInputs :
           Handle(Request("delete_aircraft", id, 0, NoBody),
                  delete_aircraft_result(aircraft, flights, id))

\* ---------------------------------------------------------------- flights
get_flight_by_id_result(ac, fl, flight_id) ==
    IF ~Exists(fl, flight_id) THEN Outcome(Response(404, "not_found"), ac, fl)
    ELSE Outcome(Ok(200), ac, fl)

\* Python truthiness of data.get("aircraft_id"): None and 0 are falsy
Truthy(aircraft_id) == aircraft_id # Null /\ aircraft_id # 0

RequiredFields == {"departure_airport", "arrival_airport", "departure_time",
                   "arrival_time"}

\* Faulty variant: create_flight comparing departure_time < now
create_flight_result_now_allowed(ac, fl, t, data) ==
    LET departure_time == parse_datetime(data.departure_time)
        arrival_time == parse_datetime(data.arrival_time)
        aircraft_id == IF "aircraft_id" \in data.keys THEN data.aircraft_id ELSE Null
        Err(e) == Outcome(Response(400, e), ac, fl)
    IN  IF RequiredFields \ data.keys # {} THEN Err("missing_fields")
        ELSE IF ~validate_icao_code(data.departure_airport)
        THEN Err("bad_departure_airport")
        ELSE IF ~validate_icao_code(data.arrival_airport)
        THEN Err("bad_arrival_airport")
        ELSE IF departure_time = Null THEN Err("bad_departure_time")
        ELSE IF arrival_time = Null THEN Err("bad_arrival_time")
        ELSE IF departure_time < t THEN Err("departure_not_future")
        ELSE IF arrival_time <= departure_time
        THEN Err("arrival_not_after_departure")
        ELSE IF Truthy(aircraft_id) /\ ~Exists(ac, aircraft_id)
        THEN Outcome(Response(404, "aircraft_not_found"), ac, fl)
        ELSE Outcome(Ok(201), ac,
                     Insert(fl, FlightRow(Upper(data.departure_airport),
                                          Upper(data.arrival_airport),
                                          departure_time, arrival_time,
                                          aircraft_id)))

\* Faulty variant: create_flight checking arrival against departure before the clock
create_flight_result_order_first(ac, fl, t, data) ==
    LET departure_time == parse_datetime(data.departure_time)
        arrival_time == parse_datetime(data.arrival_time)
        aircraft_id == IF "aircraft_id" \in data.keys THEN data.aircraft_id ELSE Null
        Err(e) == Outcome(Response(400, e), ac, fl)
    IN  IF RequiredFields \ data.keys # {} THEN Err("missing_fields")
        ELSE IF ~validate_icao_code(data.departure_airport)
        THEN Err("bad_departure_airport")
        ELSE IF ~validate_icao_code(data.arrival_airport)
        THEN Err("bad_arrival_airport")
        ELSE IF departure_time = Null THEN Err("bad_departure_time")
        ELSE IF arrival_time = Null THEN Err("bad_arrival_time")
        ELSE IF arrival_time <= departure_time
        THEN Err("arrival_not_after_departure")
        ELSE IF departure_time <= t THEN Err("departure_not_future")
        ELSE IF Truthy(aircraft_id) /\ ~Exists(ac, aircraft_id)
        THEN Outcome(Response(404, "aircraft_not_found"), ac, fl)
        ELSE Outcome(Ok(201), ac,
                     Insert(fl, FlightRow(Upper(data.departure_airport),
                                          Upper(data.arrival_airport),
                                          departure_time, arrival_time,
                                          aircraft_id)))

\* The storage engine of the repository's configuration (SQLite) does not enforce
\* the foreign key of Flight.aircraft_id: a commit stores the value it is given.
create_flight_result(ac, fl, t, data) ==
    LET departure_time == parse_datetime(data.departure_time)
        arrival_time == parse_datetime(data.arrival_time)
        aircraft_id == IF "aircraft_id" \in data.keys THEN data.aircraft_id ELSE Null
        Err(e) == Outcome(Response(400, e), ac, fl)
    IN  IF RequiredFields \ data.keys # {} THEN Err("missing_fields")
        ELSE IF ~validate_icao_code(data.departure_airport)
        THEN Err("bad_departure_airport")
        ELSE IF ~validate_icao_code(data.arrival_airport)
        THEN Err("bad_arrival_airport")
        ELSE IF departure_time = Null THEN Err("bad_departure_time")
        ELSE IF arrival_time = Null THEN Err("bad_arrival_time")
        ELSE IF departure_time <= t THEN Err("departure_not_future")
        ELSE IF arrival_time <= departure_time
        THEN Err("arrival_not_after_departure")
        ELSE IF Truthy(aircraft_id) /\ ~Exists(ac, aircraft_id)
        THEN Outcome(Response(404, "aircraft_not_found"), ac, fl)
        ELSE Outcome(Ok(201), ac,
                     Insert(fl, FlightRow(Upper(data.departure_airport),
                                          Upper(data.arrival_airport),
                                          departure_time, arrival_time,
                                          aircraft_id)))

\* update_flight works on the session's copy of the row: each step either
\* returns an error response or stages an assignment on the row.
\* A run is [resp, row]; resp.status = 0 while no response has been returned.
Running(run) == run.resp.status = 0
Return(run, status, e) == [run EXCEPT !.resp = Response(status, e)]

UpdDepartureTime(run, data, t) ==
    IF ~Running(run) \/ "departure_time" \notin data.keys THEN run
    ELSE LET departure_time == parse_datetime(data.departure_time) IN
         IF departure_time = Null THEN Return(run, 400, "bad_departure_time")
         ELSE IF departure_time <= t THEN Return(run, 400, "departure_not_future")
         ELSE [run EXCEPT !.row.departure_time = departure_time]

UpdArrivalTime(run, data) ==
    IF ~Running(run) \/ "arrival_time" \notin data.keys THEN run
    ELSE LET arrival_time == parse_datetime(data.arrival_time)
             departure == IF "departure_time" \in data.keys
                          THEN parse_datetime(data.departure_time)
                          ELSE run.row.departure_time
         IN  IF arrival_time = Null THEN Return(run, 400, "bad_arrival_time")
             ELSE IF arrival_time <= departure
             THEN Return(run, 400, "arrival_not_after_departure")
             ELSE [run EXCEPT !.row.arrival_time = arrival_time]

UpdDepartureAirport(run, data) ==
    IF ~Running(run) \/ "departure_airport" \notin data.keys THEN run
    ELSE IF ~validate_icao_code(data.departure_airport)
    THEN Return(run, 400, "bad_departure_airport")
    ELSE [run EXCEPT !.row.departure_airport = Upper(data.departure_airport)]

UpdArrivalAirport(run, data) ==
    IF ~Running(run) \/ "arrival_airport" \notin data.keys THEN run
    ELSE IF ~validate_icao_code(data.arrival_airport)
    THEN Return(run, 400, "bad_arrival_airport")
    ELSE [run EXCEPT !.row.arrival_airport = Upper(data.arrival_airport)]

UpdAircraftId(run, data, ac) ==
    IF ~Running(run) \/ "aircraft_id" \notin data.keys THEN run
    ELSE IF data.aircraft_id # Null /\ ~Exists(ac, data.aircraft_id)
    THEN Return(run, 404, "aircraft_not_found")
    ELSE [run EXCEPT !.row.aircraft_id = data.aircraft_id]

\* The body of update_flight up to, not including, db.session.commit()
update_flight_run(row, data, ac, t) ==
    UpdAircraftId(
        UpdArrivalAirport(
            UpdDepartureAirport(
                UpdArrivalTime(
                    UpdDepartureTime([resp |-> Ok(0), row |-> row], data, t),
                    data),
                data),
            data),
        data, ac)

\* db.session.commit(): the staged rows become the table
session_commit(committed, staged) == staged

\* Faulty variant: a teardown that commits what the request staged
session_remove_commits(committed, staged) == staged

\* End of a request that returned without committing: the request's session is
\* removed (db = SQLAlchemy() registers session.remove on app-context teardown),
\* which rolls the staged rows back.
session_remove(committed, staged) == committed

\* Faulty variant: a flight whose departure_time has passed can no longer be
\* updated
update_flight_result_departed_locked(ac, fl, t, flight_id, data) ==
    IF ~Exists(fl, flight_id) THEN Outcome(Response(404, "not_found"), ac, fl)
    ELSE IF fl[flight_id].departure_time <= t
    THEN Outcome(Response(400, "departure_not_future"), ac, fl)
    ELSE LET run == update_flight_run(fl[flight_id], data, ac, t)
             staged == [fl EXCEPT ![flight_id] = run.row]
         IN  IF Running(run)
             THEN Outcome(Ok(200), ac, session_commit(fl, staged))
             ELSE Outcome(run.resp, ac, session_remove(fl, staged))

update_flight_result(ac, fl, t, flight_id, data) ==
    IF ~Exists(fl, flight_id) THEN Outcome(Response(404, "not_found"), ac, fl)
    ELSE LET run == update_flight_run(fl[flight_id], data, ac, t)
             staged == [fl EXCEPT ![flight_id] = run.row]
         IN  IF Running(run)
             THEN Outcome(Ok(200), ac, session_commit(fl, staged))
             ELSE Outcome(run.resp, ac, session_remove(fl, staged))

delete_flight_result(ac, fl, flight_id) ==
    IF ~Exists(fl, flight_id) THEN Outcome(Response(404, "not_found"), ac, fl)
    ELSE Outcome(Ok(200), ac, Delete(fl, flight_id))

\* Faulty variant: assign-aircraft without the lookup of the aircraft
assign_aircraft_to_flight_result_unchecked(ac, fl, flight_id, aircraft_id) ==
    IF ~Exists(fl, flight_id) THEN Outcome(Response(404, "not_found"), ac, fl)
    ELSE Outcome(Ok(200), ac, [fl EXCEPT ![flight_id].aircraft_id = aircraft_id])

assign_aircraft_to_flight_result(ac, fl, flight_id, aircraft_id) ==
    IF ~Exists(fl, flight_id) THEN Outcome(Response(404, "not_found"), ac, fl)
    ELSE IF ~Exists(ac, aircraft_id)
    THEN Outcome(Response(404, "not_found"), ac, fl)
    ELSE Outcome(Ok(200), ac, [fl EXCEPT ![flight_id].aircraft_id = aircraft_id])

get_flight_by_id ==
    /\ req = Idle
    /\ \E id \in FlightIdInputs :
           Handle(Request("get_flight_by_id", 0, id, NoBody),
                  get_flight_by_id_result(aircraft, flights, id))

create_flight ==
    /\ req = Idle
    /\ \E data \in FlightBodies :
           LET out == create_flight_result(aircraft, flights, now, data) IN
           /\ DOMAIN out.flights \subseteq 1..MaxFlights
           /\ Handle(Request("create_flight", 0, 0, data), out)

update_flight ==
    /\ req = Idle
    /\ \E id \in FlightIdInputs, data \in FlightBodies :
           \* get_or_404 comes before the body is read: one body stands for all
           /\ ~Exists(flights, id) => data.keys = {}
           /\ Handle(Request("update_flight", 0, id, data),
                     update_flight_result(aircraft, flights, now, id, data))

delete_flight ==
    /\ req = Idle
    /\ \E id \in FlightIdInputs :
           Handle(Request("delete_flight", 0, id, NoBody),
                  delete_flight_result(aircraft, flights, id))

assign_aircraft_to_flight ==
    /\ req = Idle
    /\ \E fid \in FlightIdInputs, aid \in AircraftIdInputs :
           Handle(Request("assign_aircraft_to_flight", aid, fid, NoBody),
                  assign_aircraft_to_flight_result(aircraft, flights, fid, aid))

\* The clock advances between requests
Tick ==
    /\ req = Idle
    /\ now < MaxTime
    /\ now' = now + 1
    /\ UNCHANGED <<aircraft, flights, req, resp, pre, threads>>

Next ==
    \/ get_aircraft_by_id
    \/ create_aircraft
    \/ update_aircraft
    \/ delete_aircraft
    \/ get_flight_by_id
    \/ create_flight
    \/ update_flight
    \/ delete_flight
    \/ assign_aircraft_to_flight
    \/ Respond
    \/ Tick

Spec == Init /\ [][Next]_vars

\* ================================================================ claims
\* What the last request was, read from the exchange being delivered
Handled(op) == req.op = op
Failed == req # Idle /\ resp.status \notin {200, 201}
TablesUnchanged == aircraft = pre.aircraft /\ flights = pre.flights

\* C1: at any time every stored Flight has arrival_time > departure_time
\* (update_flight is to check the order on the prospective record).
C1_ArrivalAfterDeparture ==
    \A i \in DOMAIN flights : flights[i].arrival_time > flights[i].departure_time

\* C2: no two stored Aircraft have the same serial_number, whatever sequence of
\* create_aircraft, update_aircraft and delete_aircraft requests was handled.
C2_SerialNumberUnique ==
    \A i, j \in DOMAIN aircraft :
        i # j => aircraft[i].serial_number # aircraft[j].serial_number

\* C2 witness: with two aircraft stored, an update_aircraft has just given one
\* of them a serial number it did not have.
C2_Witness ==
    /\ Handled("update_aircraft")
    /\ resp.status = 200
    /\ Cardinality(DOMAIN aircraft) = 2
    /\ aircraft[req.aircraft_id].serial_number
         # pre.aircraft[req.aircraft_id].serial_number

\* C3: every Flight whose aircraft_id is non-null references an Aircraft that
\* currently exists.
C3_AircraftIdResolves ==
    \A i \in DOMAIN flights :
        flights[i].aircraft_id # Null => flights[i].aircraft_id \in DOMAIN aircraft

\* C4: delete_aircraft on an existing aircraft fails, changing nothing, iff some
\* Flight references it; otherwise it succeeds, removes exactly that aircraft and
\* a get-by-id for the id then reports 404.
C4_Referenced == \E i \in DOMAIN pre.flights : pre.flights[i].aircraft_id = req.aircraft_id
C4_DeleteAircraft ==
    /\ (Handled("delete_aircraft") /\ req.aircraft_id \in DOMAIN pre.aircraft) =>
        /\ resp.status # 200 <=> C4_Referenced
        /\ C4_Referenced => resp.status = 400 /\ TablesUnchanged
        /\ ~C4_Referenced =>
            /\ resp.status = 200
            /\ DOMAIN aircraft = DOMAIN pre.aircraft \ {req.aircraft_id}
            /\ \A i \in DOMAIN aircraft : aircraft[i] = pre.aircraft[i]
            /\ flights = pre.flights
            /\ get_aircraft_by_id_result(aircraft, flights, req.aircraft_id).resp.status = 404
    /\ Handled("get_aircraft_by_id") =>
        (resp.status = 404 <=> req.aircraft_id \notin DOMAIN aircraft)

\* C4 witness: a delete_aircraft was refused because a flight references the
\* aircraft.
C4_Witness ==
    /\ Handled("delete_aircraft")
    /\ resp.status = 400
    /\ \E i \in DOMAIN flights : flights[i].aircraft_id = req.aircraft_id

C6_OtherInputsValid ==
    /\ validate_icao_code(req.data.departure_airport)
    /\ validate_icao_code(req.data.arrival_airport)
    /\ \/ "aircraft_id" \notin req.data.keys
       \/ req.data.aircraft_id = Null
       \/ req.data.aircraft_id \in DOMAIN pre.aircraft
C6_CreateFlightTimes ==
    LET dep == parse_datetime(req.data.departure_time)
        arr == parse_datetime(req.data.arrival_time)
    IN  (/\ Handled("create_flight")
         /\ RequiredFields \subseteq req.data.keys
         /\ dep # Null /\ arr # Null) =>
            /\ (dep <= now \/ arr <= dep) =>
                   resp.status = 400 /\ flights = pre.flights
            /\ C6_OtherInputsValid =>
                   (resp.status = 201 <=> (now < dep /\ dep < arr))

\* C6 witness: a create_flight, valid but for departing exactly now, was rejected.
C6_Witness ==
    /\ Handled("create_flight")
    /\ RequiredFields \subseteq req.data.keys
    /\ C6_OtherInputsValid
    /\ parse_datetime(req.data.departure_time) = now
    /\ parse_datetime(req.data.arrival_time) > now
    /\ resp.status = 400

\* C7: when a create_flight request violates several rules at once, the error
\* reported is that of the earliest violated rule in the order: required fields,
\* departure ICAO, arrival ICAO, departure parseable, arrival parseable,
\* departure in the future, arrival after departure, aircraft id resolves;
\* and nothing is stored.
C7_Violated(data, ac, t) ==
    LET has(k) == k \in data.keys
        dep == parse_datetime(data.departure_time)
        arr == parse_datetime(data.arrival_time)
    IN  {n \in 1..8 :
            \/ n = 1 /\ \E k \in RequiredFields : ~has(k)
            \/ n = 2 /\ has("departure_airport")
                     /\ ~validate_icao_code(data.departure_airport)
            \/ n = 3 /\ has("arrival_airport")
                     /\ ~validate_icao_code(data.arrival_airport)
            \/ n = 4 /\ has("departure_time") /\ dep = Null
            \/ n = 5 /\ has("arrival_time") /\ arr = Null
            \/ n = 6 /\ has("departure_time") /\ dep # Null /\ dep <= t
            \/ n = 7 /\ has("departure_time") /\ has("arrival_time")
                     /\ dep # Null /\ arr # Null /\ arr <= dep
            \/ n = 8 /\ has("aircraft_id") /\ data.aircraft_id # Null
                     /\ data.aircraft_id \notin DOMAIN ac}
C7_ErrorOfRule ==
    <<"missing_fields", "bad_departure_airport", "bad_arrival_airport",
      "bad_departure_time", "bad_arrival_time", "departure_not_future",
      "arrival_not_after_departure", "aircraft_not_found">>
C7_Min(S) == CHOOSE x \in S : \A y \in S : x <= y
C7_FirstViolationReported ==
    LET V == C7_Violated(req.data, pre.aircraft, now) IN
    (Handled("create_flight") /\ Cardinality(V) >= 2) =>
        /\ resp.error = C7_ErrorOfRule[C7_Min(V)]
        /\ resp.status # 201
        /\ TablesUnchanged

\* C7 witness: a create_flight with all fields present broke three rules or more,
\* the departure ICAO code was fine and the arrival ICAO error was reported.
C7_Witness ==
    /\ Handled("create_flight")
    /\ Cardinality(C7_Violated(req.data, pre.aircraft, now)) >= 3
    /\ req.data.keys = FlightKeys
    /\ resp.error = "bad_arrival_airport"

\* C8: create_aircraft with the serial_number of an existing Aircraft fails with
\* 409, adds nothing and leaves the existing rows as they were; with a
\* serial_number not present it adds exactly one aircraft with the requested fields.
C8_CreateAircraft ==
    (Handled("create_aircraft")
        /\ {"serial_number", "manufacturer"} \subseteq req.data.keys) =>
        IF \E i \in DOMAIN pre.aircraft :
               pre.aircraft[i].serial_number = req.data.serial_number
        THEN resp.status = 409 /\ TablesUnchanged
        ELSE /\ resp.status = 201
             /\ flights = pre.flights
             /\ \E new \in DOMAIN aircraft \ DOMAIN pre.aircraft :
                    /\ DOMAIN aircraft = DOMAIN pre.aircraft \cup {new}
                    /\ aircraft[new].serial_number = req.data.serial_number
                    /\ aircraft[new].manufacturer = req.data.manufacturer
             /\ \A i \in DOMAIN pre.aircraft : aircraft[i] = pre.aircraft[i]

\* C8 witness: a create_aircraft reusing a serial number, under another
\* manufacturer, was refused.
C8_Witness ==
    /\ Handled("create_aircraft")
    /\ resp.status = 409
    /\ \E i \in DOMAIN aircraft :
           /\ aircraft[i].serial_number = req.data.serial_number
           /\ aircraft[i].manufacturer # req.data.manufacturer

\* C9: update_aircraft fails with 409 iff the requested serial_number is held by
\* a different aircraft; then nothing changes, a new manufacturer in the request
\* included; setting an aircraft's serial_number to its own value succeeds.
C9_HeldByOther ==
    /\ "serial_number" \in req.data.keys
    /\ \E j \in DOMAIN pre.aircraft :
           /\ j # req.aircraft_id
           /\ pre.aircraft[j].serial_number = req.data.serial_number
C9_UpdateAircraft ==
    (Handled("update_aircraft") /\ req.aircraft_id \in DOMAIN pre.aircraft) =>
        /\ resp.status = 409 <=> C9_HeldByOther
        /\ resp.status = 409 => TablesUnchanged
        /\ ("serial_number" \in req.data.keys
              /\ req.data.serial_number
                   = pre.aircraft[req.aircraft_id].serial_number) =>
               /\ resp.status = 200
               /\ aircraft[req.aircraft_id].serial_number = req.data.serial_number

\* C9 witness: an update_aircraft carrying another aircraft's serial number and
\* a new manufacturer was refused.
C9_Witness ==
    /\ Handled("update_aircraft")
    /\ resp.status = 409
    /\ "manufacturer" \in req.data.keys
    /\ req.data.manufacturer # pre.aircraft[req.aircraft_id].manufacturer

\* C10: assign-aircraft on an existing flight and an existing aircraft sets the
\* flight's aircraft_id to that aircraft and changes nothing else; if either id
\* does not resolve it fails with 404 and changes nothing.
C10_AssignAircraft ==
    Handled("assign_aircraft_to_flight") =>
        IF req.flight_id \in DOMAIN pre.flights
             /\ req.aircraft_id \in DOMAIN pre.aircraft
        THEN /\ resp.status = 200
             /\ aircraft = pre.aircraft
             /\ DOMAIN flights = DOMAIN pre.flights
             /\ flights[req.flight_id].aircraft_id = req.aircraft_id
             /\ \A i \in DOMAIN flights :
                    [flights[i] EXCEPT !.aircraft_id = Null]
                      = [pre.flights[i] EXCEPT !.aircraft_id = Null]
             /\ \A i \in DOMAIN flights \ {req.flight_id} :
                    flights[i] = pre.flights[i]
        ELSE resp.status = 404 /\ TablesUnchanged

\* C10 witness: an assign-aircraft replaced the assignment of another aircraft.
C10_Witness ==
    /\ Handled("assign_aircraft_to_flight")
    /\ resp.status = 200
    /\ pre.flights[req.flight_id].aircraft_id \in DOMAIN pre.aircraft
    /\ pre.flights[req.flight_id].aircraft_id # req.aircraft_id

\* ================================================================ reports
\* Instants count minutes, so (flight_end - flight_start).total_seconds() / 60
\* is the difference of two instants. Numbers that leave through round(x, 2)
\* are carried in hundredths of a minute.

\* round(num / den, 2) in hundredths: the nearest integer to 100 * num / den,
\* a tie going to the even one (num >= 0, den > 0)
Round2(num, den) ==
    LET q == (100 * num) \div den
        r == (100 * num) % den
    IN  IF 2 * r < den THEN q
        ELSE IF 2 * r > den THEN q + 1
        ELSE IF q % 2 = 0 THEN q ELSE q + 1

MaxOf(a, b) == IF a >= b THEN a ELSE b
MinOf(a, b) == IF a <= b THEN a ELSE b

\* Faulty variant: the flight is clipped at the end of the window only
calculate_inflight_time_from_departure(flight, start_time, end_time) ==
    LET flight_end == MinOf(flight.arrival_time, end_time)
    IN  IF flight.departure_time < flight_end
        THEN flight_end - flight.departure_time ELSE 0

\* Faulty variant: the whole flight is counted, not its part inside the window
calculate_inflight_time_unclipped(flight, start_time, end_time) ==
    IF flight.departure_time < flight.arrival_time
    THEN flight.arrival_time - flight.departure_time ELSE 0

\* app.utils.calculate_inflight_time
calculate_inflight_time(flight, start_time, end_time) ==
    LET flight_start == MaxOf(flight.departure_time, start_time)
        flight_end == MinOf(flight.arrival_time, end_time)
    IN  IF flight_start < flight_end THEN flight_end - flight_start ELSE 0

\* Faulty variant: the window is taken as open at both ends
SelectedFlights_open(fl, start_time, end_time) ==
    {i \in DOMAIN fl :
        \/ fl[i].departure_time >= start_time /\ fl[i].departure_time < end_time
        \/ fl[i].arrival_time > start_time /\ fl[i].arrival_time <= end_time
        \/ fl[i].departure_time <= start_time /\ fl[i].arrival_time >= end_time}

\* The three-clause filter of flight_statistics: the ids of the rows it returns
SelectedFlights(fl, start_time, end_time) ==
    {i \in DOMAIN fl :
        \/ fl[i].departure_time >= start_time /\ fl[i].departure_time <= end_time
        \/ fl[i].arrival_time >= start_time /\ fl[i].arrival_time <= end_time
        \/ fl[i].departure_time <= start_time /\ fl[i].arrival_time >= end_time}

\* The orders in which a query without ORDER BY may return the rows of S
Orders(S) ==
    {o \in [1..Cardinality(S) -> S] : \A i \in S : \E k \in DOMAIN o : o[k] = i}

\* dict[key] = value, adding the key if it is new
Put(dict, key, value) ==
    [k \in DOMAIN dict \cup {key} |-> IF k = key THEN value ELSE dict[k]]

\* Faulty variant: a new group starts with a flight already counted
NewGroup_counted == [flight_count |-> 1, aircraft_flight_times |-> << >>,
                     total_flight_time |-> 0]

\* stats[departure_airport] as first created
NewGroup == [flight_count |-> 0, aircraft_flight_times |-> << >>,
             total_flight_time |-> 0]

\* Faulty variant: minutes are accumulated for every flight, with or without
\* an aircraft
StatsStep_every_flight(stats, flight, start_time, end_time) ==
    LET airport == flight.departure_airport
        g0 == IF airport \in DOMAIN stats THEN stats[airport] ELSE NewGroup
        g1 == [g0 EXCEPT !.flight_count = @ + 1]
        minutes == calculate_inflight_time(flight, start_time, end_time)
        aid == flight.aircraft_id
        before == IF aid \in DOMAIN g1.aircraft_flight_times
                  THEN g1.aircraft_flight_times[aid] ELSE 0
        g2 == [g1 EXCEPT
                 !.aircraft_flight_times = Put(@, aid, before + minutes),
                 !.total_flight_time = @ + minutes]
    IN  Put(stats, airport, g2)

\* Faulty variant: the minutes of a flight replace those already recorded for
\* its aircraft instead of being added to them
StatsStep_overwrite(stats, flight, start_time, end_time) ==
    LET airport == flight.departure_airport
        g0 == IF airport \in DOMAIN stats THEN stats[airport] ELSE NewGroup
        g1 == [g0 EXCEPT !.flight_count = @ + 1]
        minutes == calculate_inflight_time(flight, start_time, end_time)
        aid == flight.aircraft_id
        g2 == IF Truthy(aid)
              THEN [g1 EXCEPT
                      !.aircraft_flight_times = Put(@, aid, minutes),
                      !.total_flight_time = @ + minutes]
              ELSE g1
    IN  Put(stats, airport, g2)

\* One turn of `for flight in flights` in flight_statistics
StatsStep(stats, flight, start_time, end_time) ==
    LET airport == flight.departure_airport
        g0 == IF airport \in DOMAIN stats THEN stats[airport] ELSE NewGroup
        g1 == [g0 EXCEPT !.flight_count = @ + 1]
        minutes == calculate_inflight_time(flight, start_time, end_time)
        aid == flight.aircraft_id
        before == IF aid \in DOMAIN g1.aircraft_flight_times
                  THEN g1.aircraft_flight_times[aid] ELSE 0
        g2 == IF Truthy(aid)
              THEN [g1 EXCEPT
                      !.aircraft_flight_times = Put(@, aid, before + minutes),
                      !.total_flight_time = @ + minutes]
              ELSE g1
    IN  Put(stats, airport, g2)

RECURSIVE StatsLoop(_, _, _, _, _)
StatsLoop(stats, order, fl, start_time, end_time) ==
    IF order = << >> THEN stats
    ELSE StatsLoop(StatsStep(stats, fl[Head(order)], start_time, end_time),
                   Tail(order), fl, start_time, end_time)

RECURSIVE SumCounts(_, _)
SumCounts(result, airports) ==
    IF airports = {} THEN 0
    ELSE LET a == CHOOSE x \in airports : TRUE
         IN  result[a].flight_count + SumCounts(result, airports \ {a})

\* Faulty variant: the average is taken over the aircraft of the group, not
\* over its flights
StatsFormat_per_aircraft(stats, ac) ==
    [airport \in DOMAIN stats |->
        LET data == stats[airport] IN
        [flight_count |-> data.flight_count,
         average_flight_time |->
            IF Cardinality(DOMAIN data.aircraft_flight_times) > 0
            THEN Round2(data.total_flight_time,
                        Cardinality(DOMAIN data.aircraft_flight_times))
            ELSE 0,
         aircraft_flight_times |->
            [aid \in DOMAIN data.aircraft_flight_times |->
                [serial_number |-> IF Exists(ac, aid) THEN ac[aid].serial_number
                                   ELSE "Unknown",
                 in_flight_minutes |->
                    Round2(data.aircraft_flight_times[aid], 1)]]]]

\* "Format the response": one group per key of stats
StatsFormat(stats, ac) ==
    [airport \in DOMAIN stats |->
        LET data == stats[airport] IN
        [flight_count |-> data.flight_count,
         average_flight_time |->
            IF data.flight_count > 0
            THEN Round2(data.total_flight_time, data.flight_count) ELSE 0,
         aircraft_flight_times |->
            [aid \in DOMAIN data.aircraft_flight_times |->
                [serial_number |-> IF Exists(ac, aid) THEN ac[aid].serial_number
                                   ELSE "Unknown",
                 in_flight_minutes |->
                    Round2(data.aircraft_flight_times[aid], 1)]]]]

StatsResponse(result, start_time, end_time) ==
    [status |-> 200, error |-> "none", data |-> result,
     meta |-> [start_time |-> IsoString(start_time),
               end_time |-> IsoString(end_time),
               total_airports |-> Cardinality(DOMAIN result),
               total_flights |-> SumCounts(result, DOMAIN result)]]

\* request.args.get(name): None when the parameter is absent
Arg(args, name) == IF name \in args.keys THEN args[name] ELSE NoString

\* Faulty variant: a window with end_time = start_time is accepted
flight_statistics_result_empty_window(ac, fl, args, order) ==
    LET start_time_str == Arg(args, "start_time")
        end_time_str == Arg(args, "end_time")
        start_time == parse_datetime(start_time_str)
        end_time == parse_datetime(end_time_str)
    IN  IF start_time_str = NoString \/ end_time_str = NoString
        THEN Outcome(Response(400, "window_required"), ac, fl)
        ELSE IF start_time = Null \/ end_time = Null
        THEN Outcome(Response(400, "bad_datetime"), ac, fl)
        ELSE IF end_time < start_time
        THEN Outcome(Response(400, "end_not_after_start"), ac, fl)
        ELSE Outcome(StatsResponse(
                         StatsFormat(StatsLoop(<< >>, order, fl, start_time, end_time),
                                     ac),
                         start_time, end_time),
                     ac, fl)

\* flight_statistics, the rows of its query arriving in `order`
flight_statistics_result(ac, fl, args, order) ==
    LET start_time_str == Arg(args, "start_time")
        end_time_str == Arg(args, "end_time")
        start_time == parse_datetime(start_time_str)
        end_time == parse_datetime(end_time_str)
    IN  IF start_time_str = NoString \/ end_time_str = NoString
        THEN Outcome(Response(400, "window_required"), ac, fl)
        ELSE IF start_time = Null \/ end_time = Null
        THEN Outcome(Response(400, "bad_datetime"), ac, fl)
        ELSE IF end_time <= start_time
        THEN Outcome(Response(400, "end_not_after_start"), ac, fl)
        ELSE Outcome(StatsResponse(
                         StatsFormat(StatsLoop(<< >>, order, fl, start_time, end_time),
                                     ac),
                         start_time, end_time),
                     ac, fl)

\* The rows the query of a statistics request returns (none if it is refused)
StatsRows(fl, args) ==
    LET start_time == parse_datetime(Arg(args, "start_time"))
        end_time == parse_datetime(Arg(args, "end_time"))
    IN  IF start_time = Null \/ end_time = Null \/ end_time <= start_time THEN {}
        ELSE SelectedFlights(fl, start_time, end_time)

\* ---------------------------------------------------------------- report runs
\* The registries a report is asked about are built by the handlers themselves,
\* from bodies that pass validation: two departure airports, the instants
\* T+9h, T+10h, T+12h, T+13h and T+16h (in minutes; the clock stands at T = 0).
StatsMaxFlights == 2
StatsInstants == {540, 600, 720, 780, 960}
StatsDepIcao == {<<"A", "B", "C", "D">>, <<"e", "g", "l", "l">>}
StatsAircraftBodies ==
    { [keys |-> {"serial_number", "manufacturer"},
       serial_number |-> sn, manufacturer |-> "Airbus"] : sn \in {"SN1", "SN2"} }
\* The legs a create_flight body may name: departure and arrival instants
StatsLegs == {<<600, 720>>, <<780, 960>>}
StatsCreateBodies ==
    { [keys |-> RequiredFields \cup k,
       departure_airport |-> da,
       arrival_airport |-> <<"K", "J", "F", "K">>,
       departure_time |-> IsoString(leg[1]),
       arrival_time |-> IsoString(leg[2]),
       aircraft_id |-> IF "aircraft_id" \in k THEN aid ELSE Null] :
        k \in SUBSET {"aircraft_id"}, da \in StatsDepIcao,
        leg \in StatsLegs, aid \in 0..MaxAircraft }
StatsUpdateBodies ==
    { [keys |-> {"departure_time"},
       departure_airport |-> NoString, arrival_airport |-> NoString,
       departure_time |-> IsoString(dt), arrival_time |-> NoString,
       aircraft_id |-> Null] : dt \in StatsInstants }
\* The query string of GET /api/flights/statistics
StatsArgs ==
    { [keys |-> k,
       start_time |-> IF "start_time" \in k THEN s ELSE NoString,
       end_time |-> IF "end_time" \in k THEN e ELSE NoString] :
        k \in SUBSET {"start_time", "end_time"},
        s \in {IsoString(t) : t \in StatsInstants} \cup {Garbage, NoString},
        e \in {IsoString(t) : t \in StatsInstants} \cup {Garbage, NoString} }

stats_create_aircraft ==
    /\ req = Idle
    /\ \E data \in StatsAircraftBodies :
           LET out == create_aircraft_result(aircraft, flights, data) IN
           /\ DOMAIN out.aircraft \subseteq 1..MaxAircraft
           /\ Handle(Request("create_aircraft", 0, 0, data), out)

stats_create_flight ==
    /\ req = Idle
    /\ \E data \in StatsCreateBodies :
           LET out == create_flight_result(aircraft, flights, now, data) IN
           /\ DOMAIN out.flights \subseteq 1..StatsMaxFlights
           /\ Handle(Request("create_flight", 0, 0, data), out)

stats_update_flight ==
    /\ req = Idle
    /\ \E id \in DOMAIN flights, data \in StatsUpdateBodies :
           Handle(Request("update_flight", 0, id, data),
                  update_flight_result(aircraft, flights, now, id, data))

flight_statistics ==
    /\ req = Idle
    /\ \E args \in StatsArgs :
           \E order \in Orders(StatsRows(flights, args)) :
               Handle(Request("flight_statistics", 0, 0, args),
                      flight_statistics_result(aircraft, flights, args, order))

NextStats ==
    \/ stats_create_aircraft
    \/ stats_create_flight
    \/ stats_update_flight
    \/ flight_statistics
    \/ Respond

SpecStats == Init /\ [][NextStats]_vars

\* ================================================================ report claims
\* A report is being delivered, for the window WinStart..WinEnd
Reported == Handled("flight_statistics") /\ resp.status = 200
WinStart == parse_datetime(req.data.start_time)
WinEnd == parse_datetime(req.data.end_time)

\* The flights that overlap the closed window
Overlapping(fl, start_time, end_time) ==
    {i \in DOMAIN fl :
        fl[i].departure_time <= end_time /\ fl[i].arrival_time >= start_time}

\* C11: for every valid window and every flight the registry can hold after
\* create and update requests, the three-clause filter of the report selects
\* the flight exactly when departure_time <= end_time and arrival_time >= start_time.
C11_SelectionIsOverlap ==
    Reported =>
        SelectedFlights(flights, WinStart, WinEnd)
            = Overlapping(flights, WinStart, WinEnd)

\* The selection as the report is specified: departure inside the window, or
\* arrival inside it, or the flight spanning it; and the selected flights of
\* one departure airport, and of one aircraft among those
Within(t, start_time, end_time) == start_time <= t /\ t <= end_time
Chosen ==
    {i \in DOMAIN flights :
        \/ Within(flights[i].departure_time, WinStart, WinEnd)
        \/ Within(flights[i].arrival_time, WinStart, WinEnd)
        \/ flights[i].departure_time <= WinStart /\ flights[i].arrival_time >= WinEnd}
ChosenFrom(airport) == {i \in Chosen : flights[i].departure_airport = airport}
ChosenOf(airport, aid) == {i \in ChosenFrom(airport) : flights[i].aircraft_id = aid}

\* The minutes of flight i inside the window: min(arrival, end) - max(departure,
\* start) when that is positive, 0 otherwise
Clip(i) ==
    LET d == MinOf(flights[i].arrival_time, WinEnd)
             - MaxOf(flights[i].departure_time, WinStart)
    IN  IF d > 0 THEN d ELSE 0
RECURSIVE ClipSum(_)
ClipSum(S) ==
    IF S = {} THEN 0
    ELSE LET i == CHOOSE x \in S : TRUE IN Clip(i) + ClipSum(S \ {i})

\* Flight i touches the window at one instant only: it arrives at start_time
\* or departs at end_time
AtEdge(i) == flights[i].arrival_time = WinStart \/ flights[i].departure_time = WinEnd

\* C12: a flight that arrives exactly at start_time, or departs exactly at
\* end_time, is selected: it is counted in the flight_count of its departure
\* airport and, if it has an aircraft, that aircraft has an entry to which the
\* flight adds 0 minutes.
C12_EdgeFlightSelected ==
    Reported =>
        \A i \in DOMAIN flights :
            AtEdge(i) =>
                LET airport == flights[i].departure_airport
                    aid == flights[i].aircraft_id
                IN  /\ airport \in DOMAIN resp.data
                    /\ resp.data[airport].flight_count
                           = Cardinality(ChosenFrom(airport) \cup {i})
                    /\ aid \in DOMAIN aircraft =>
                           /\ aid \in DOMAIN resp.data[airport].aircraft_flight_times
                           /\ resp.data[airport].aircraft_flight_times[aid].in_flight_minutes
                                  = 100 * ClipSum(ChosenOf(airport, aid) \ {i})

\* A report in which one flight arrives at start_time and another departs at
\* end_time, each the only flight of its aircraft: both entries read 0
C12_Witness ==
    /\ Reported
    /\ \E i, j \in DOMAIN flights :
           /\ flights[i].arrival_time = WinStart
           /\ flights[j].departure_time = WinEnd
           /\ flights[i].departure_time < flights[i].arrival_time
           /\ flights[j].departure_time < flights[j].arrival_time
           /\ flights[i].aircraft_id \in DOMAIN aircraft
           /\ flights[j].aircraft_id \in DOMAIN aircraft
           /\ flights[i].aircraft_id # flights[j].aircraft_id
           /\ \A k \in {i, j} :
                  resp.data[flights[k].departure_airport]
                      .aircraft_flight_times[flights[k].aircraft_id]
                      .in_flight_minutes = 0

\* Flight i has an aircraft: its aircraft_id names a stored Aircraft
HasAircraft(i) == flights[i].aircraft_id \in DOMAIN aircraft

\* C13: every selected flight with an assigned aircraft contributes
\* min(arrival_time, end_time) - max(departure_time, start_time) minutes when
\* that is strictly positive and 0 otherwise; a flight that departs before
\* start_time and arrives after end_time contributes exactly end_time - start_time.
C13_ClippedContribution ==
    Reported =>
        \A i \in Chosen :
            HasAircraft(i) =>
                LET airport == flights[i].departure_airport
                    aid == flights[i].aircraft_id
                    entries == resp.data[airport].aircraft_flight_times
                IN  /\ aid \in DOMAIN entries
                    /\ entries[aid].in_flight_minutes
                           = 100 * (Clip(i) + ClipSum(ChosenOf(airport, aid) \ {i}))
                    /\ (/\ flights[i].departure_time < WinStart
                        /\ flights[i].arrival_time > WinEnd
                        /\ ChosenOf(airport, aid) = {i})
                           => entries[aid].in_flight_minutes
                                  = 100 * (WinEnd - WinStart)

\* A report with a flight that spans the window and one that overlaps it in part
C13_Witness ==
    /\ Reported
    /\ \E i, j \in Chosen :
           /\ HasAircraft(i) /\ HasAircraft(j)
           /\ flights[i].aircraft_id # flights[j].aircraft_id
           /\ flights[i].departure_time < WinStart /\ flights[i].arrival_time > WinEnd
           /\ flights[j].departure_time > WinStart /\ flights[j].arrival_time > WinEnd
           /\ resp.data[flights[i].departure_airport]
                  .aircraft_flight_times[flights[i].aircraft_id].in_flight_minutes
                  = 100 * (WinEnd - WinStart)
           /\ resp.data[flights[j].departure_airport]
                  .aircraft_flight_times[flights[j].aircraft_id].in_flight_minutes
                  = 100 * (WinEnd - flights[j].departure_time)
           /\ flights[j].departure_time < WinEnd

\* The selected flights of an airport that have an aircraft
WithAircraft(airport) == {i \in ChosenFrom(airport) : HasAircraft(i)}

\* C14: a selected flight whose aircraft_id is null adds one to the
\* flight_count of its group, adds nothing to the group's total and has no
\* entry in aircraft_flight_times; a group of such flights only has
\* average_flight_time 0 and no entries.
C14_UnassignedFlight ==
    Reported =>
        \A i \in Chosen :
            flights[i].aircraft_id = Null =>
                LET airport == flights[i].departure_airport
                    g == resp.data[airport]
                IN  /\ g.flight_count = Cardinality(ChosenFrom(airport) \cup {i})
                    /\ Null \notin DOMAIN g.aircraft_flight_times
                    /\ g.average_flight_time
                           = Round2(ClipSum(WithAircraft(airport)), g.flight_count)
                    /\ (\A j \in ChosenFrom(airport) : flights[j].aircraft_id = Null)
                           => /\ g.average_flight_time = 0
                              /\ g.aircraft_flight_times = << >>

\* A report with two groups: one of a single unassigned flight, one of a
\* flight with an aircraft that is in the air during the window
C14_Witness ==
    /\ Reported
    /\ \E i, j \in Chosen :
           /\ flights[i].aircraft_id = Null
           /\ flights[i].departure_time < WinEnd /\ flights[i].arrival_time > WinStart
           /\ HasAircraft(j)
           /\ flights[i].departure_airport # flights[j].departure_airport
           /\ resp.data[flights[i].departure_airport]
                  = [flight_count |-> 1, average_flight_time |-> 0,
                     aircraft_flight_times |-> << >>]
           /\ resp.data[flights[j].departure_airport].average_flight_time > 0

\* C15: the report has exactly one group per distinct departure_airport among
\* the selected flights; a group's flight_count is the number of selected
\* flights with that departure airport; meta.total_airports is the number of
\* groups and meta.total_flights the number of selected flights.
C15_GroupsAndCounts ==
    Reported =>
        /\ DOMAIN resp.data = {flights[i].departure_airport : i \in Chosen}
        /\ \A airport \in DOMAIN resp.data :
               resp.data[airport].flight_count = Cardinality(ChosenFrom(airport))
        /\ resp.meta.total_airports = Cardinality(DOMAIN resp.data)
        /\ resp.meta.total_flights = Cardinality(Chosen)

\* A report over two stored flights of different departure airports, both selected
C15_Witness ==
    /\ Reported
    /\ Cardinality(DOMAIN flights) = 2
    /\ resp.meta.total_airports = 2
    /\ resp.meta.total_flights = 2

\* The sum of the in_flight_minutes of the entries of group g (hundredths)
RECURSIVE EntrySum(_, _)
EntrySum(g, aids) ==
    IF aids = {} THEN 0
    ELSE LET a == CHOOSE x \in aids : TRUE
         IN  g.aircraft_flight_times[a].in_flight_minutes + EntrySum(g, aids \ {a})
Abs(x) == IF x < 0 THEN 0 - x ELSE x

\* The registry of the example: flight A (T+10h to T+12h, aircraft x) and
\* flight B (T+13h to T+16h, aircraft y), both from ABCD
ExampleRegistry(a, b) ==
    /\ DOMAIN flights = {a, b} /\ a # b
    /\ flights[a].departure_airport = <<"A", "B", "C", "D">>
    /\ flights[b].departure_airport = <<"A", "B", "C", "D">>
    /\ flights[a].departure_time = 600 /\ flights[a].arrival_time = 720
    /\ flights[b].departure_time = 780 /\ flights[b].arrival_time = 960
    /\ HasAircraft(a) /\ HasAircraft(b)
    /\ flights[a].aircraft_id # flights[b].aircraft_id
ExampleReport(a, b) ==
    LET x == flights[a].aircraft_id
        y == flights[b].aircraft_id
    IN  /\ DOMAIN resp.data = {<<"A", "B", "C", "D">>}
        /\ resp.data[<<"A", "B", "C", "D">>].flight_count = 2
        /\ resp.data[<<"A", "B", "C", "D">>].average_flight_time = 15000
        /\ resp.data[<<"A", "B", "C", "D">>].aircraft_flight_times
               = (x :> [serial_number |-> aircraft[x].serial_number,
                        in_flight_minutes |-> 12000])
                 @@ (y :> [serial_number |-> aircraft[y].serial_number,
                           in_flight_minutes |-> 18000])

\* C16: in every group average_flight_time is the group's total in-flight
\* minutes divided by its flight_count (unassigned and zero-contribution
\* flights are counted), to the two decimals reported, and the total is the
\* sum of the group's per-aircraft minutes; for the window T+9h..T+16h over
\* flights A and B of the example the report is one group ABCD with
\* flight_count 2, average 150 and entries of 120 and 180 minutes.
C16_AverageOverFlights ==
    Reported =>
        /\ \A airport \in DOMAIN resp.data :
               LET g == resp.data[airport]
                   total == ClipSum(WithAircraft(airport))
               IN  /\ g.flight_count = Cardinality(ChosenFrom(airport))
                   /\ EntrySum(g, DOMAIN g.aircraft_flight_times) = 100 * total
                   /\ 2 * Abs(g.average_flight_time * g.flight_count - 100 * total)
                          <= g.flight_count
        /\ \A a, b \in DOMAIN flights :
               (ExampleRegistry(a, b) /\ WinStart = 540 /\ WinEnd = 960)
                   => ExampleReport(a, b)

\* The report of the example is delivered
C16_Witness ==
    /\ Reported
    /\ WinStart = 540 /\ WinEnd = 960
    /\ \E a, b \in DOMAIN flights : ExampleRegistry(a, b) /\ ExampleReport(a, b)

\* C17: producing the report never changes the Aircraft or Flight registry, and
\* asking again for the same window on the same registries returns the same
\* groups with the same counts, per-aircraft minutes and averages, in whatever
\* order the rows of the query arrive.
C17_ReportReadsOnly ==
    Handled("flight_statistics") =>
        /\ TablesUnchanged
        /\ \A order \in Orders(StatsRows(flights, req.data)) :
               LET again == flight_statistics_result(aircraft, flights,
                                                     req.data, order)
               IN  /\ again.resp = resp
                   /\ again.aircraft = aircraft
                   /\ again.flights = flights

\* A report that adds up two flights of one aircraft from one airport, with
\* different minutes inside the window
C17_Witness ==
    /\ Reported
    /\ TablesUnchanged
    /\ \E i, j \in Chosen :
           /\ i # j
           /\ HasAircraft(i)
           /\ flights[i].aircraft_id = flights[j].aircraft_id
           /\ flights[i].departure_airport = flights[j].departure_airport
           /\ Clip(i) > 0 /\ Clip(j) > Clip(i)

\* A parameter of the statistics request is missing: absent, or empty
Missing(name) == name \notin req.data.keys \/ req.data[name] = NoString

\* C18: a statistics request with end_time <= start_time, or without
\* start_time or end_time, gets a validation error that carries no groups and
\* no metadata; nothing is selected or aggregated for it, and nothing is written.
C18_WindowValidated ==
    Handled("flight_statistics") =>
        /\ (Missing("start_time") \/ Missing("end_time"))
               => resp = Response(400, "window_required")
        /\ (/\ ~Missing("start_time") /\ ~Missing("end_time")
            /\ WinStart # Null /\ WinEnd # Null
            /\ WinEnd <= WinStart)
               => resp = Response(400, "end_not_after_start")
        /\ resp.status = 400 => DOMAIN resp = {"status", "error"} /\ TablesUnchanged

\* A window with end_time = start_time, at an instant when a stored flight is
\* in the air, is refused
C18_Witness ==
    /\ Handled("flight_statistics")
    /\ resp.status = 400
    /\ ~Missing("start_time") /\ ~Missing("end_time")
    /\ WinStart # Null /\ WinEnd = WinStart
    /\ \E i \in DOMAIN flights :
           flights[i].departure_time < WinStart /\ flights[i].arrival_time > WinStart

\* ================================================================ flight list
\* GET /api/flights: each filter is applied when its parameter has a value
\* (`if departure_airport:` and the like pass over None and the empty string).
ListResponse(rows) == [status |-> 200, error |-> "none", data |-> rows]

\* Faulty variant: the departure-time bounds are exclusive
get_flights_result_exclusive(ac, fl, args) ==
    LET departure_airport == Arg(args, "departure_airport")
        arrival_airport == Arg(args, "arrival_airport")
        departure_after == Arg(args, "departure_after")
        departure_before == Arg(args, "departure_before")
        q0 == DOMAIN fl
        q1 == IF departure_airport # NoString
              THEN {i \in q0 : fl[i].departure_airport = Upper(departure_airport)}
              ELSE q0
        q2 == IF arrival_airport # NoString
              THEN {i \in q1 : fl[i].arrival_airport = Upper(arrival_airport)}
              ELSE q1
        q3 == IF departure_after # NoString
              THEN {i \in q2 : fl[i].departure_time > parse_datetime(departure_after)}
              ELSE q2
        q4 == IF departure_before # NoString
              THEN {i \in q3 : fl[i].departure_time < parse_datetime(departure_before)}
              ELSE q3
    IN  IF departure_airport # NoString /\ ~validate_icao_code(departure_airport)
        THEN Outcome(Response(400, "bad_icao"), ac, fl)
        ELSE IF arrival_airport # NoString /\ ~validate_icao_code(arrival_airport)
        THEN Outcome(Response(400, "bad_icao"), ac, fl)
        ELSE IF departure_after # NoString /\ parse_datetime(departure_after) = Null
        THEN Outcome(Response(400, "bad_datetime"), ac, fl)
        ELSE IF departure_before # NoString /\ parse_datetime(departure_before) = Null
        THEN Outcome(Response(400, "bad_datetime"), ac, fl)
        ELSE Outcome(ListResponse(q4), ac, fl)

\* get_flights: the response lists the rows (by id) that pass every filter applied
get_flights_result(ac, fl, args) ==
    LET departure_airport == Arg(args, "departure_airport")
        arrival_airport == Arg(args, "arrival_airport")
        departure_after == Arg(args, "departure_after")
        departure_before == Arg(args, "departure_before")
        q0 == DOMAIN fl
        q1 == IF departure_airport # NoString
              THEN {i \in q0 : fl[i].departure_airport = Upper(departure_airport)}
              ELSE q0
        q2 == IF arrival_airport # NoString
              THEN {i \in q1 : fl[i].arrival_airport = Upper(arrival_airport)}
              ELSE q1
        q3 == IF departure_after # NoString
              THEN {i \in q2 : fl[i].departure_time >= parse_datetime(departure_after)}
              ELSE q2
        q4 == IF departure_before # NoString
              THEN {i \in q3 : fl[i].departure_time <= parse_datetime(departure_before)}
              ELSE q3
    IN  IF departure_airport # NoString /\ ~validate_icao_code(departure_airport)
        THEN Outcome(Response(400, "bad_icao"), ac, fl)
        ELSE IF arrival_airport # NoString /\ ~validate_icao_code(arrival_airport)
        THEN Outcome(Response(400, "bad_icao"), ac, fl)
        ELSE IF departure_after # NoString /\ parse_datetime(departure_after) = Null
        THEN Outcome(Response(400, "bad_datetime"), ac, fl)
        ELSE IF departure_before # NoString /\ parse_datetime(departure_before) = Null
        THEN Outcome(Response(400, "bad_datetime"), ac, fl)
        ELSE Outcome(ListResponse(q4), ac, fl)

\* The registries listed hold up to ListMaxFlights flights between two
\* airports, created by create_flight from bodies that pass validation.
ListMaxFlights == 2
ListInstants == {1, 2, 3}
ListIcao == {<<"e", "g", "l", "l">>, <<"K", "J", "F", "K">>}
ListCreateBodies ==
    { [keys |-> RequiredFields,
       departure_airport |-> da,
       arrival_airport |-> aa,
       departure_time |-> IsoString(dt),
       arrival_time |-> IsoString(at),
       aircraft_id |-> Null] :
        da \in ListIcao, aa \in ListIcao,
        dt \in ListInstants, at \in ListInstants }
\* The query string of GET /api/flights
ListIcaoFilters == ListIcao \cup {NoString, <<"K", "1", "F", "K">>, <<"E", "G", "L">>}
ListDtFilters == {IsoString(t) : t \in ListInstants} \cup {NoString, Garbage}
ListFilterKeys == {"departure_airport", "arrival_airport",
                   "departure_after", "departure_before"}
ListArgs ==
    { [keys |-> k,
       departure_airport |-> IF "departure_airport" \in k THEN da ELSE NoString,
       arrival_airport |-> IF "arrival_airport" \in k THEN aa ELSE NoString,
       departure_after |-> IF "departure_after" \in k THEN after ELSE NoString,
       departure_before |-> IF "departure_before" \in k THEN before ELSE NoString] :
        k \in SUBSET ListFilterKeys,
        da \in ListIcaoFilters, aa \in ListIcaoFilters,
        after \in ListDtFilters, before \in ListDtFilters }

list_create_flight ==
    /\ req = Idle
    /\ \E data \in ListCreateBodies :
           LET out == create_flight_result(aircraft, flights, now, data) IN
           /\ DOMAIN out.flights \subseteq 1..ListMaxFlights
           /\ Handle(Request("create_flight", 0, 0, data), out)

get_flights ==
    /\ req = Idle
    /\ \E args \in ListArgs :
           Handle(Request("get_flights", 0, 0, args),
                  get_flights_result(aircraft, flights, args))

NextList ==
    \/ list_create_flight
    \/ get_flights
    \/ Respond

SpecList == Init /\ [][NextList]_vars

\* ================================================================ list claims
\* The value of a filter in the request being delivered, and whether the
\* filter is present (the parameter is there and has a value)
FilterValue(name) == IF name \in req.data.keys THEN req.data[name] ELSE NoString
Present(name) == FilterValue(name) # NoString

\* A filter present with a value that is no ICAO code, or no ISO datetime
Malformed ==
    \/ \E name \in {"departure_airport", "arrival_airport"} :
           Present(name) /\ ~validate_icao_code(FilterValue(name))
    \/ \E name \in {"departure_after", "departure_before"} :
           Present(name) /\ parse_datetime(FilterValue(name)) = Null

\* Stored flight i satisfies every filter present
Passes(i) ==
    /\ Present("departure_airport")
           => flights[i].departure_airport = Upper(FilterValue("departure_airport"))
    /\ Present("arrival_airport")
           => flights[i].arrival_airport = Upper(FilterValue("arrival_airport"))
    /\ Present("departure_after")
           => flights[i].departure_time >= parse_datetime(FilterValue("departure_after"))
    /\ Present("departure_before")
           => flights[i].departure_time <= parse_datetime(FilterValue("departure_before"))

C20_OtherFieldsValid(data, departure, ac) ==
    /\ "arrival_time" \in data.keys
           => /\ parse_datetime(data.arrival_time) # Null
              /\ parse_datetime(data.arrival_time) > departure
    /\ "departure_airport" \in data.keys => validate_icao_code(data.departure_airport)
    /\ "arrival_airport" \in data.keys => validate_icao_code(data.arrival_airport)
    /\ "aircraft_id" \in data.keys
           => data.aircraft_id = Null \/ data.aircraft_id \in DOMAIN ac

\* The flight the request names was stored, and its departure_time had passed
C20_Departed ==
    /\ req.flight_id \in DOMAIN pre.flights
    /\ pre.flights[req.flight_id].departure_time <= now

\* C20: as the clock advances, a stored flight whose departure_time has passed
\* can still be read, deleted, assigned an aircraft, and updated by any request
\* that carries no departure_time; an update_flight that carries a
\* departure_time is rejected exactly when that departure_time <= now at the
\* time of the request (its other fields being valid), whenever the flight
\* was created.
C20_ClockOnlyJudgesNewDeparture ==
    /\ C20_Departed =>
           /\ Handled("get_flight_by_id") => resp.status = 200
           /\ Handled("delete_flight") =>
                  resp.status = 200 /\ req.flight_id \notin DOMAIN flights
           /\ (Handled("assign_aircraft_to_flight")
                   /\ req.aircraft_id \in DOMAIN pre.aircraft) =>
                  /\ resp.status = 200
                  /\ flights[req.flight_id].aircraft_id = req.aircraft_id
           /\ (Handled("update_flight") /\ "departure_time" \notin req.data.keys) =>
                  /\ resp.error # "departure_not_future"
                  /\ resp.status = 200
                         <=> C20_OtherFieldsValid(
                                 req.data,
                                 pre.flights[req.flight_id].departure_time,
                                 pre.aircraft)
    /\ (/\ Handled("update_flight")
        /\ req.flight_id \in DOMAIN pre.flights
        /\ "departure_time" \in req.data.keys
        /\ parse_datetime(req.data.departure_time) # Null) =>
           LET departure_time == parse_datetime(req.data.departure_time) IN
           /\ departure_time <= now =>
                  resp = Response(400, "departure_not_future") /\ TablesUnchanged
           /\ C20_OtherFieldsValid(req.data, departure_time, pre.aircraft) =>
                  /\ resp.status # 200 <=> departure_time <= now
                  /\ resp.status = 200 =>
                         flights[req.flight_id].departure_time = departure_time

\* After the clock passed the departure_time of a stored flight, an update
\* that carries an arrival_time and an aircraft_id but no departure_time
\* changed the flight
C20_Witness ==
    /\ Handled("update_flight")
    /\ C20_Departed
    /\ pre.flights[req.flight_id].departure_time < now
    /\ req.data.keys = {"arrival_time", "aircraft_id"}
    /\ resp.status = 200
    /\ flights[req.flight_id].aircraft_id
           # pre.flights[req.flight_id].aircraft_id

\* ================================================================ concurrent requests
\* A threaded server runs several handlers at once, each with its own session.
\* A handler reads the tables while it checks its request (SELECTs, no lock
\* held afterwards) and writes them at db.session.commit(), which flushes the
\* one statement the handler staged; other handlers may commit in between.
\* The storage is the SQLite database of the tests: it enforces the UNIQUE
\* constraint on aircraft.serial_number and does not enforce the foreign key
\* of flight.aircraft_id.

\* The statement a session flushes at commit
Write(kind, id, row) == [kind |-> kind, id |-> id, row |-> row]

\* A handler between its checks and its commit, and one that has returned
Staged(r, write, ok) ==
    [pc |-> "commit", req |-> r, write |-> write, resp |-> ok,
     raced |-> FALSE]           \* a handler of the same request committed meanwhile
Returned(r, response, committed, found, raced) ==
    [pc |-> "done", req |-> r, resp |-> response,
     committed |-> committed,   \* it reached db.session.commit()
     found |-> found,           \* the tables as its commit found them
     raced |-> raced]           \* another handler of the same request raced it

\* Where the handler stands after its checks: it has returned the error of
\* `out`, or it holds `write` for its commit
AfterChecks(r, out, write) ==
    IF out.resp.status \in {200, 201} THEN Staged(r, write, out.resp)
    ELSE Returned(r, out.resp, FALSE, NoTables, FALSE)

\* The handlers that hold a statement of this kind for their commit
StagedKind(kind) ==
    {w \in Workers : threads[w].pc = "commit" /\ threads[w].write.kind = kind}

\* Faulty variant: a storage without the UNIQUE constraint on serial_number
session_flush_no_unique(ac, fl, write, ok) ==
    CASE write.kind = "insert_aircraft" -> Outcome(ok, Insert(ac, write.row), fl)
      [] write.kind = "delete_aircraft" ->
            IF ~Exists(ac, write.id) THEN Outcome(ok, ac, fl)
            ELSE Outcome(ok, Delete(ac, write.id),
                         [i \in DOMAIN fl |->
                             IF fl[i].aircraft_id = write.id
                             THEN [fl[i] EXCEPT !.aircraft_id = Null] ELSE fl[i]])
      [] write.kind = "set_aircraft_id" ->
            IF ~Exists(fl, write.id)
            THEN Outcome(Response(500, "stale_data"), ac, fl)
            ELSE Outcome(ok, ac, [fl EXCEPT ![write.id].aircraft_id = write.row])
      [] write.kind = "insert_flight" -> Outcome(ok, ac, Insert(fl, write.row))
      [] OTHER -> Outcome(ok, ac, fl)

\* db.session.commit() of a handler that staged `write`, on the tables as they
\* are now:
\*  - INSERT of an aircraft fails on the UNIQUE constraint if a row holds the
\*    serial_number (IntegrityError, answered 500);
\*  - DELETE of an aircraft first sets to NULL the aircraft_id of the flights
\*    the flush finds referring to it (Aircraft.flights has no delete cascade);
\*    a row already gone is only warned about;
\*  - UPDATE of flight.aircraft_id and INSERT of a flight are not checked
\*    against the aircraft table; an UPDATE that matches no row is an error.
session_flush(ac, fl, write, ok) ==
    CASE write.kind = "insert_aircraft" ->
            IF SerialHolders(ac, write.row.serial_number) # {}
            THEN Outcome(Response(500, "integrity_error"), ac, fl)
            ELSE Outcome(ok, Insert(ac, write.row), fl)
      [] write.kind = "delete_aircraft" ->
            IF ~Exists(ac, write.id) THEN Outcome(ok, ac, fl)
            ELSE Outcome(ok, Delete(ac, write.id),
                         [i \in DOMAIN fl |->
                             IF fl[i].aircraft_id = write.id
                             THEN [fl[i] EXCEPT !.aircraft_id = Null] ELSE fl[i]])
      [] write.kind = "set_aircraft_id" ->
            IF ~Exists(fl, write.id)
            THEN Outcome(Response(500, "stale_data"), ac, fl)
            ELSE Outcome(ok, ac, [fl EXCEPT ![write.id].aircraft_id = write.row])
      [] write.kind = "insert_flight" -> Outcome(ok, ac, Insert(fl, write.row))
      [] OTHER -> Outcome(ok, ac, fl)

\* Request values of the concurrent runs
RaceAircraftBodies ==
    { [keys |-> {"serial_number", "manufacturer"},
       serial_number |-> sn, manufacturer |-> "Airbus"] : sn \in {"SN1", "SN2"} }
RaceCreateFlightBodies ==
    { [keys |-> RequiredFields \cup k,
       departure_airport |-> <<"e", "g", "l", "l">>,
       arrival_airport |-> <<"K", "J", "F", "K">>,
       departure_time |-> IsoString(1),
       arrival_time |-> IsoString(2),
       aircraft_id |-> IF "aircraft_id" \in k THEN aid ELSE Null] :
        k \in SUBSET {"aircraft_id"}, aid \in 1..MaxAircraft }
RaceUpdateFlightBodies ==
    { [keys |-> {"aircraft_id"},
       departure_airport |-> NoString, arrival_airport |-> NoString,
       departure_time |-> NoString, arrival_time |-> NoString,
       aircraft_id |-> aid] : aid \in (1..MaxAircraft) \cup {Null} }

\* The UPDATE a session flushes for a flight whose aircraft_id was assigned
\* `value`: none if the loaded row already had it
SetAircraftId(fl, flight_id, value) ==
    IF fl[flight_id].aircraft_id = value THEN Write("none", 0, << >>)
    ELSE Write("set_aircraft_id", flight_id, value)

\* Worker w takes a request and runs its handler up to the commit
Check(w, thread) ==
    /\ threads' = [threads EXCEPT ![w] = thread]
    /\ UNCHANGED <<aircraft, flights, now, req, resp, pre>>

race_create_aircraft ==
    \E w \in Workers, data \in RaceAircraftBodies :
        LET r == Request("create_aircraft", 0, 0, data)
            out == create_aircraft_result(aircraft, flights, data)
        IN  /\ threads[w].pc = "idle"
            /\ NextId(aircraft) + Cardinality(StagedKind("insert_aircraft"))
                   <= MaxAircraft
            /\ Check(w, AfterChecks(r, out,
                   Write("insert_aircraft", 0,
                         AircraftRow(data.serial_number, data.manufacturer))))

race_delete_aircraft ==
    \E w \in Workers, id \in 1..MaxAircraft :
        LET r == Request("delete_aircraft", id, 0, NoBody)
            out == delete_aircraft_result(aircraft, flights, id)
        IN  /\ threads[w].pc = "idle"
            /\ Check(w, AfterChecks(r, out, Write("delete_aircraft", id, << >>)))

race_assign_aircraft_to_flight ==
    \E w \in Workers, flight_id \in 1..MaxFlights, id \in 1..MaxAircraft :
        LET r == Request("assign_aircraft_to_flight", id, flight_id, NoBody)
            out == assign_aircraft_to_flight_result(aircraft, flights, flight_id, id)
        IN  /\ threads[w].pc = "idle"
            /\ Check(w, AfterChecks(r, out,
                   IF Exists(flights, flight_id)
                   THEN SetAircraftId(flights, flight_id, id)
                   ELSE Write("none", 0, << >>)))

race_create_flight ==
    \E w \in Workers, data \in RaceCreateFlightBodies :
        LET r == Request("create_flight", 0, 0, data)
            out == create_flight_result(aircraft, flights, now, data)
        IN  /\ threads[w].pc = "idle"
            /\ NextId(flights) + Cardinality(StagedKind("insert_flight"))
                   <= MaxFlights
            /\ Check(w, AfterChecks(r, out,
                   Write("insert_flight", 0,
                         FlightRow(Upper(data.departure_airport),
                                   Upper(data.arrival_airport),
                                   parse_datetime(data.departure_time),
                                   parse_datetime(data.arrival_time),
                                   IF "aircraft_id" \in data.keys
                                   THEN data.aircraft_id ELSE Null))))

race_update_flight ==
    \E w \in Workers, flight_id \in 1..MaxFlights, data \in RaceUpdateFlightBodies :
        LET r == Request("update_flight", 0, flight_id, data)
            out == update_flight_result(aircraft, flights, now, flight_id, data)
        IN  /\ threads[w].pc = "idle"
            /\ Check(w, AfterChecks(r, out,
                   IF Exists(flights, flight_id)
                   THEN SetAircraftId(flights, flight_id, data.aircraft_id)
                   ELSE Write("none", 0, << >>)))

\* The handlers that are between their checks and their commit of the same
\* request as worker w
Rivals(w) ==
    {v \in Workers \ {w} :
        threads[v].pc = "commit" /\ threads[v].req = threads[w].req}

\* db.session.commit() and the return of the handler
race_commit ==
    \E w \in Workers :
        /\ threads[w].pc = "commit"
        /\ LET out == session_flush(aircraft, flights, threads[w].write,
                                    threads[w].resp)
           IN  /\ aircraft' = out.aircraft
               /\ flights' = out.flights
               /\ threads' =
                      [v \in Workers |->
                          IF v = w
                          THEN Returned(threads[w].req, out.resp, TRUE,
                                        [aircraft |-> aircraft, flights |-> flights],
                                        threads[w].raced \/ Rivals(w) # {})
                          ELSE IF v \in Rivals(w)
                          THEN [threads[v] EXCEPT !.raced = TRUE]
                          ELSE threads[v]]
        /\ UNCHANGED <<now, req, resp, pre>>

\* The response of a handler has been delivered
race_respond ==
    \E w \in Workers :
        /\ threads[w].pc = "done"
        /\ threads' = [threads EXCEPT ![w] = NoThread]
        /\ UNCHANGED <<aircraft, flights, now, req, resp, pre>>

NextRace ==
    \/ race_create_aircraft
    \/ race_delete_aircraft
    \/ race_assign_aircraft_to_flight
    \/ race_create_flight
    \/ race_update_flight
    \/ race_commit
    \/ race_respond

SpecRace == Init /\ [][NextRace]_vars

\* ================================================================ concurrency claims
\* Worker w has returned from a create_aircraft that reached its commit
CreatedAt(w) ==
    /\ threads[w].pc = "done"
    /\ threads[w].req.op = "create_aircraft"
    /\ threads[w].committed

\* The aircraft table as the commit of worker v left it
LeftBy(v) ==
    IF threads[v].resp.status = 201
    THEN Insert(threads[v].found.aircraft,
                AircraftRow(threads[v].req.data.serial_number,
                            threads[v].req.data.manufacturer))
    ELSE threads[v].found.aircraft

\* Workers v and w ran create_aircraft for one serial_number, both passing
\* the existence check before either committed; v committed, then w, no
\* other request changing the aircraft table in between; both have returned
RacedCreates(v, w) ==
    /\ v # w
    /\ CreatedAt(v) /\ CreatedAt(w)
    /\ threads[v].req = threads[w].req
    /\ threads[v].raced /\ threads[w].raced
    /\ threads[w].found.aircraft = LeftBy(v)

\* C21: when two create_aircraft requests with the same serial_number both
\* pass the existence check before either commits, the UNIQUE constraint of
\* the storage lets at most one commit succeed, and the registry never holds
\* two aircraft with that serial_number.
C21_RaceSerialUnique ==
    /\ \A i, j \in DOMAIN aircraft :
           aircraft[i].serial_number = aircraft[j].serial_number => i = j
    /\ \A w \in Workers :
           CreatedAt(w) =>
               /\ threads[w].resp.status \in {201, 500}
               /\ threads[w].resp.status = 201
                      <=> SerialHolders(threads[w].found.aircraft,
                                        threads[w].req.data.serial_number) = {}
    /\ \A v, w \in Workers :
           RacedCreates(v, w) =>
               ~(threads[v].resp.status = 201 /\ threads[w].resp.status = 201)

\* Two such requests have returned: one created the aircraft, the other
\* failed at its commit
C21_Witness ==
    \E v, w \in Workers :
        /\ RacedCreates(v, w)
        /\ threads[v].resp.status = 201
        /\ threads[w].resp = Response(500, "integrity_error")
        /\ Cardinality(SerialHolders(aircraft, threads[w].req.data.serial_number)) = 1

\* The aircraft ids the stored flights refer to
ReferredAircraft == {flights[i].aircraft_id : i \in DOMAIN flights} \ {Null}

\* C22: when a delete_aircraft request is interleaved, between check and
\* commit, with an assign-aircraft, create_flight or update_flight request
\* naming the same aircraft, no reachable state has a Flight whose aircraft_id
\* refers to a deleted Aircraft.
C22_NoFlightOfDeletedAircraft == ReferredAircraft \subseteq DOMAIN aircraft

\* ================================================================ report bounds
\* C23: for every registry and every valid window, the contribution of each
\* selected flight lies between 0 and the window length end_time - start_time;
\* so the average_flight_time of every group is at most the window length,
\* and the minutes of an aircraft in a group are at most the window length
\* times the number of that aircraft's selected flights in the group.
C23_BoundedByWindow ==
    Reported =>
        LET length == WinEnd - WinStart IN
        /\ \A i \in Chosen :
               /\ calculate_inflight_time(flights[i], WinStart, WinEnd) >= 0
               /\ calculate_inflight_time(flights[i], WinStart, WinEnd) <= length
        /\ \A airport \in DOMAIN resp.data :
               LET g == resp.data[airport] IN
               /\ g.average_flight_time >= 0
               /\ g.average_flight_time <= 100 * length
               /\ \A aid \in DOMAIN g.aircraft_flight_times :
                      /\ g.aircraft_flight_times[aid].in_flight_minutes >= 0
                      /\ g.aircraft_flight_times[aid].in_flight_minutes
                             <= 100 * length * Cardinality(ChosenOf(airport, aid))

\* A report in which two flights of one aircraft from one airport both span
\* the window: the aircraft's minutes are twice the window length and the
\* average of the group is the window length
C23_Witness ==
    /\ Reported
    /\ \E i, j \in Chosen :
           /\ i # j
           /\ HasAircraft(i)
           /\ flights[i].aircraft_id = flights[j].aircraft_id
           /\ flights[i].departure_airport = flights[j].departure_airport
           /\ \A k \in {i, j} :
                  flights[k].departure_time < WinStart /\ flights[k].arrival_time > WinEnd
           /\ LET g == resp.data[flights[i].departure_airport] IN
              /\ g.aircraft_flight_times[flights[i].aircraft_id].in_flight_minutes
                     = 200 * (WinEnd - WinStart)
              /\ g.average_flight_time = 100 * (WinEnd - WinStart)

====
